---------------------------- MODULE Spec2Model ----------------------------
(***************************************************************************)
(* Model of the strategy execution engine of the trading project:          *)
(* the per-strategy snapshot state machine (execute_daily_routine of the   *)
(* Averaging "InfBuy" and the Value-Rebalancing "VR" variant), the order    *)
(* reconciler (_sync_snapshot_orders), order placement (_place_orders),    *)
(* the two order generators and the two next-state calculators.            *)
(*                                                                         *)
(* Units.  Money is kept in cents, the Averaging T and star in hundredths, *)
(* rates in percent.  Python's round(x, 2) and round(x, 0) are modelled by *)
(* RoundDiv (round half to even on the exact quotient); a float division   *)
(* whose result the code does not round is kept as an exact fraction where *)
(* it is only compared or divided again, and truncated to the cent where   *)
(* it is stored in a progress state.                                       *)
(*                                                                         *)
(* Time is counted in half-days: slot 2d is day d before 15:00 KST, slot   *)
(* 2d+1 is day d from 15:00 KST on.  That is the resolution at which the   *)
(* code's date arithmetic (created_at read back as UTC and shifted to KST) *)
(* can be computed exactly.                                                *)
(***************************************************************************)
EXTENDS Integers, Sequences, FiniteSets, TLC

(***************************************************************************)
(* Bounds of the model.                                                    *)
(***************************************************************************)
MaxNow == 30
MaxNowAveraging == 1
MaxSnapshots == 2
MaxOrders == 2
MaxSyncOrders == 2
MaxCalcOrders == 2

(***************************************************************************)
(* Program constants.                                                      *)
(***************************************************************************)
CycleDays == 14
MaxDailyOrders == 5

NoId == 0

\* state.get('avg_price', None) of a progress state without avg_price.
NoPrice == -1

(***************************************************************************)
(* Arithmetic helpers.                                                     *)
(***************************************************************************)
Min(a, b) == IF a <= b THEN a ELSE b

Max(a, b) == IF a >= b THEN a ELSE b

\* Python round(): the quotient a/b (b > 0) rounded half to even.
RoundDiv(a, b) ==
    LET q == a \div b
        r == a % b
    IN  IF 2 * r < b THEN q
        ELSE IF 2 * r > b THEN q + 1
        ELSE IF q % 2 = 0 THEN q ELSE q + 1

\* Python int(): the quotient a/b (b > 0) truncated toward zero.
TruncDiv(a, b) == IF a >= 0 THEN a \div b ELSE 0 - ((0 - a) \div b)

RECURSIVE SumSeq(_)
SumSeq(s) == IF s = <<>> THEN 0 ELSE Head(s) + SumSeq(Tail(s))

\* Integer square root, used for the scaled value of sqrt(g_factor).
ISqrt(n) == CHOOSE r \in 0..(n + 1) : r * r <= n /\ (r + 1) * (r + 1) > n

(***************************************************************************)
(* Strategy parameters (Strategy.base_params as read by the constructors). *)
(* Averaging: division, sell_gain (hundredths), initial_investment (cents),*)
(* reinvestment_rate (percent).  Value-Rebalancing: initial_investment,    *)
(* periodic_investment (cents), buy_limit_rate, sell_limit_rate, u_band,   *)
(* l_band (percent), g_factor, is_advanced.                                *)
(***************************************************************************)
InfBuyParams ==
    [strategy_code |-> "InfBuy", division |-> 20, sell_gain |-> 20,
     initial_investment |-> 1000000, reinvestment_rate |-> 50,
     periodic_investment |-> 0, buy_limit_rate |-> 0, sell_limit_rate |-> 0,
     g_factor |-> 1, u_band |-> 0, l_band |-> 0, is_advanced |-> FALSE]

VRParams ==
    [strategy_code |-> "VR", division |-> 1, sell_gain |-> 0,
     initial_investment |-> 1000000, reinvestment_rate |-> 0,
     periodic_investment |-> 40000, buy_limit_rate |-> 1, sell_limit_rate |-> 1,
     g_factor |-> 13, u_band |-> 15, l_band |-> 15, is_advanced |-> FALSE]

(***************************************************************************)
(* Averaging order generator: InfBuyStrategy._generate_orders.             *)
(* The result is [raised, orders]; raised models the ValueError paths.     *)
(***************************************************************************)
GenOrder(side, type, price, qty, otype) ==
    [side |-> side, type |-> type, price |-> price, qty |-> qty, order_type |-> otype]

\* unit_investment = investment / division, kept as the fraction
\* UnitNum / division.
UnitNum(p, state) ==
    IF state.investment > 0 THEN state.investment ELSE p.initial_investment

\* Variant: the ladder goes on at a target equal to 80% of the price.
InfBuyDropContinuesAt(target, price) == target * 10 >= price * 8

\* Line 367: the test of the drop loop, target_price > current_price * 0.8.
InfBuyDropContinues(target, price) == target * 10 > price * 8

RECURSIVE InfBuyDropOrders(_, _, _, _)
InfBuyDropOrders(p, unitNum, price, st) ==
    IF InfBuyDropContinues(st.target, price)
    THEN LET q2 == st.qty + 1
             t2 == RoundDiv(unitNum, p.division * q2)
         IN  <<GenOrder("BUY", "InitDrop", t2, 1, "LOC")>>
                 \o InfBuyDropOrders(p, unitNum, price, [qty |-> q2, target |-> t2])
    ELSE <<>>

InfBuyColdStart(p, unitNum, price) ==
    LET target == RoundDiv(price * 120, 100)
        qty == IF target > 0 THEN TruncDiv(unitNum, p.division * target) ELSE 0
        first == IF qty > 0 THEN <<GenOrder("BUY", "Init", target, qty, "LOC")>> ELSE <<>>
    IN  first \o InfBuyDropOrders(p, unitNum, price, [qty |-> qty, target |-> target])

InfBuyStarPrice(p, state, price) ==
    IF state.avg_price > 0
    THEN RoundDiv(state.avg_price * (100 + state.star), 100)
    ELSE RoundDiv(price * (100 + state.star), 100)

InfBuySellOrders(p, state, star_buy_price) ==
    LET quantity == state.quantity
        qty_sell_star == IF quantity > 0 THEN RoundDiv(quantity, 4) ELSE 0
        sell_price == IF state.avg_price > 0
                      THEN RoundDiv(state.avg_price * (100 + p.sell_gain), 100) ELSE 0
        sell_qty == Max(0, quantity - qty_sell_star)
    IN  <<GenOrder("SELL", "StarSell", star_buy_price + 1, qty_sell_star, "LOC"),
          GenOrder("SELL", "AllSell", sell_price, sell_qty, "LOC")>>

InfBuyFirstHalf(p, state, unitNum, price) ==
    LET cap == RoundDiv(price * 119, 100)
        star_buy_price == Min(InfBuyStarPrice(p, state, price), cap)
        avg_buy_price == Min(state.avg_price, cap)
        qty_buy_avg == IF avg_buy_price > 0
                       THEN RoundDiv(unitNum, p.division * 2 * avg_buy_price) ELSE 0
        remNum == unitNum - p.division * avg_buy_price * qty_buy_avg
        qty_buy_star == IF star_buy_price > 0
                        THEN RoundDiv(remNum, p.division * star_buy_price) ELSE 0
    IN  <<GenOrder("BUY", "AvgBuy", avg_buy_price, qty_buy_avg, "LOC"),
          GenOrder("BUY", "StarBuy", star_buy_price, qty_buy_star, "LOC")>>
            \o InfBuySellOrders(p, state, star_buy_price)

InfBuySecondHalf(p, state, unitNum, price) ==
    LET cap == RoundDiv(price * 119, 100)
        star_buy_price == Min(InfBuyStarPrice(p, state, price), cap)
        qty_buy_star == IF star_buy_price > 0
                        THEN RoundDiv(unitNum, p.division * star_buy_price) ELSE 0
    IN  <<GenOrder("BUY", "StarBuy", star_buy_price, qty_buy_star, "LOC")>>
            \o InfBuySellOrders(p, state, star_buy_price)

InfBuyLossCut(p, state) ==
    LET qty_cut == IF state.quantity > 0 THEN RoundDiv(state.quantity, 4) ELSE 0
    IN  <<GenOrder("SELL", "QtrSell", 0, qty_cut, "MOC")>>

\* Variant: T = division / 2 belongs to the second half.
InfBuyPhaseHalfOpen(p, t) ==
    IF t = 0 THEN "cold"
    ELSE IF 2 * t < 100 * p.division THEN "first"
    ELSE IF t <= 100 * (p.division - 1) THEN "second"
    ELSE "losscut"

\* The phase chosen by the if/elif chain on current_t (hundredths).
InfBuyPhase(p, t) ==
    IF t = 0 THEN "cold"
    ELSE IF 2 * t <= 100 * p.division THEN "first"
    ELSE IF t <= 100 * (p.division - 1) THEN "second"
    ELSE "losscut"

\* A progress state without avg_price raises before any order is built:
\* ValueError at line 313 when T > 0, TypeError at line 322 otherwise.
InfBuyGenerateOrders(p, state, price) ==
    LET unitNum == UnitNum(p, state)
        phase == InfBuyPhase(p, state.current_t)
    IN  IF state.avg_price = NoPrice \/ unitNum <= 0
        THEN [raised |-> TRUE, hang |-> FALSE, orders |-> <<>>]
        ELSE [raised |-> FALSE, hang |-> FALSE,
              orders |-> CASE phase = "cold" -> InfBuyColdStart(p, unitNum, price)
                           [] phase = "first" -> InfBuyFirstHalf(p, state, unitNum, price)
                           [] phase = "second" -> InfBuySecondHalf(p, state, unitNum, price)
                           [] OTHER -> InfBuyLossCut(p, state)]

(***************************************************************************)
(* Value-Rebalancing order generator: VRStrategy._generate_orders.         *)
(* hang models a while loop that never ends.                               *)
(***************************************************************************)
\* current_price * 1.2 in cents (exact for prices that are multiples of 5).
VRPriceCap(price) == (price * 12) \div 10

VRBuyTarget(p, state, current_qty, price, n) ==
    Min(VRPriceCap(price),
        RoundDiv(state.v * (100 - p.l_band), 100 * (current_qty + n)))

\* The buy loop: st = [n, target, sum, acc].  A target of 0 or less leaves
\* the running sum at or below the limit for ever.
RECURSIVE VRBuyLadder(_, _, _, _, _)
VRBuyLadder(p, state, current_qty, price, st) ==
    IF st.sum * 100 <= p.buy_limit_rate * state.pool
    THEN IF st.target <= 0 \/ current_qty + st.n + 1 <= 0
         THEN [hang |-> TRUE, orders |-> st.acc]
         ELSE LET t2 == VRBuyTarget(p, state, current_qty, price, st.n + 1)
              IN  VRBuyLadder(p, state, current_qty, price,
                      [n |-> st.n + 1, target |-> t2, sum |-> st.sum + t2,
                       acc |-> Append(st.acc, GenOrder("BUY", "Order", st.target, 1, "LOC"))])
    ELSE [hang |-> FALSE, orders |-> st.acc]

\* The sell loop: sell_qty stays 1, so the loop runs for ever as soon as
\* 1 <= sell_limit = sell_limit_rate * current_qty.
VRSellLadder(p, state, current_qty) ==
    IF 100 <= p.sell_limit_rate * current_qty
    THEN [hang |-> TRUE, orders |-> <<>>]
    ELSE [hang |-> FALSE, orders |-> <<>>]

RECURSIVE VRMergeChunks(_, _, _)
VRMergeChunks(side, os, unit) ==
    IF os = <<>> THEN <<>>
    ELSE LET k == Min(unit, Len(os))
             chunk == SubSeq(os, 1, k)
             total == SumSeq([i \in 1..k |-> chunk[i].qty])
         IN  <<GenOrder(side, "Order", chunk[1].price, total, "LOC")>>
                 \o VRMergeChunks(side, SubSeq(os, k + 1, Len(os)), unit)

VRMerge(side, os) ==
    IF Len(os) > MaxDailyOrders
    THEN VRMergeChunks(side, os, (Len(os) + MaxDailyOrders - 1) \div MaxDailyOrders)
    ELSE os

\* current_qty = state.qty + cycle_trade buy qty - cycle_trade sell qty,
\* where a missing cycle_trade counts as 0.
VRCurrentQty(state) ==
    state.qty + (IF state.ct THEN state.ct_buy_qty - state.ct_sell_qty ELSE 0)

\* Lines 253-266: the 1-unit buy ladder before merging.
VRBuyOrders(p, state, price) ==
    VRBuyLadder(p, state, VRCurrentQty(state), price,
        [n |-> 1, acc |-> <<>>,
         target |-> IF VRCurrentQty(state) + 1 > 0
                    THEN VRBuyTarget(p, state, VRCurrentQty(state), price, 1)
                    ELSE Min(VRPriceCap(price), 0),
         sum |-> IF VRCurrentQty(state) + 1 > 0
                 THEN VRBuyTarget(p, state, VRCurrentQty(state), price, 1)
                 ELSE Min(VRPriceCap(price), 0)])

\* The merged orders of lines 277-296, for the ladders buy and sell.
VRMergedOrders(buy, sell) ==
    IF buy.hang \/ sell.hang
    THEN [raised |-> FALSE, hang |-> TRUE, orders |-> <<>>]
    ELSE [raised |-> FALSE, hang |-> FALSE,
          orders |-> VRMerge("BUY", buy.orders) \o VRMerge("SELL", sell.orders)]

VRGenerateOrders(p, state, price) ==
    VRMergedOrders(VRBuyOrders(p, state, price),
                   VRSellLadder(p, state, VRCurrentQty(state)))

(***************************************************************************)
(* Next-state calculators.                                                 *)
(***************************************************************************)
IsFilled(o) == o.order_status \in {"FILLED", "PARTIALLY_FILLED"}

\* The buy_sum / sell_sum accumulation loop over the snapshot's orders.
RECURSIVE FilledSum(_, _, _)
FilledSum(ords, side, old_avg) ==
    IF ords = <<>> THEN [qty |-> 0, value |-> 0, daily_profit |-> 0]
    ELSE LET o == Head(ords)
             rest == FilledSum(Tail(ords), side, old_avg)
         IN  IF IsFilled(o) /\ o.order_type = side
             THEN [qty |-> rest.qty + o.filled_qty,
                   value |-> rest.value + o.filled_price * o.filled_qty,
                   daily_profit |-> rest.daily_profit
                                      + (o.filled_price - old_avg) * o.filled_qty]
             ELSE rest

\* Variant: the cycle is never reset.
InfBuyResetsNever(new_qty) == FALSE

\* Line 280: the cycle-reset test new_qty <= 0.0001, on whole quantities.
InfBuyResets(new_qty) == new_qty <= 0

\* InfBuyStrategy._calculate_next_state (the state it returns).
InfBuyCalcNextState(p, last_cycle, progress, ords, price) ==
    LET old_avg == progress.avg_price
        old_qty == progress.quantity
        buy_sum == FilledSum(ords, "BUY", old_avg)
        sell_sum == FilledSum(ords, "SELL", old_avg)
        temp_qty == old_qty - sell_sum.qty
        new_qty == temp_qty + buy_sum.qty
        new_amount == temp_qty * old_avg + buy_sum.value
        new_avg == IF new_qty <= 0 THEN 0 ELSE RoundDiv(new_amount, new_qty)
        new_investment == RoundDiv(progress.investment * 100
                                     + p.reinvestment_rate * sell_sum.daily_profit, 100)
        unit_investment == IF p.division > 0 THEN RoundDiv(new_investment, p.division) ELSE 0
        new_balance == progress.balance + sell_sum.value - buy_sum.value
        new_t == IF unit_investment > 0 /\ new_qty > 0
                 THEN RoundDiv(new_avg * new_qty * 100, unit_investment) ELSE 0
        new_star == RoundDiv(p.sell_gain * 100 * p.division - 2 * new_t * p.sell_gain,
                             100 * p.division)
    IN  IF InfBuyResets(new_qty)
        THEN [progress EXCEPT !.current_t = 0, !.star = p.sell_gain,
                              !.investment = new_investment,
                              !.unit_investment = new_investment \div p.division,
                              !.daily_profit = 0, !.quantity = 0, !.avg_price = 0,
                              !.balance = new_balance, !.equity = new_balance,
                              !.cycle = last_cycle + 1]
        ELSE [progress EXCEPT !.current_t = new_t, !.star = new_star,
                              !.investment = new_investment,
                              !.unit_investment = unit_investment,
                              !.daily_profit = sell_sum.daily_profit,
                              !.quantity = new_qty, !.avg_price = new_avg,
                              !.balance = new_balance,
                              !.equity = new_balance + new_qty * price,
                              !.cycle = last_cycle]

\* What the computation leaves in last_snapshot.progress: the Averaging
\* calculator works on progress.copy(), so the snapshot's own state is as before.
InfBuyProgressAfterCalc(progress, result) == progress

\* VRStrategy._snapshot_trade_results: the aggregated fills, which the
\* routine also writes into the in-memory snapshot.progress['cycle_trade'].
VRTradeResults(ords) ==
    [buy |-> FilledSum(ords, "BUY", 0), sell |-> FilledSum(ords, "SELL", 0)]

\* Variant: the next state is computed without the snapshot's fills.
VRFillsDropped(ords) == <<>>

\* Line 151: the orders the next-state computation sums over, those of the
\* snapshot.
VRFillsRead(ords) == ords

\* Variant: the fills are also booked into the snapshot's own qty.
VRProgressInPlace(progress, ords) ==
    LET tr == VRTradeResults(ords)
    IN  [progress EXCEPT !.ct = TRUE, !.ct_buy_qty = tr.buy.qty,
                         !.ct_sell_qty = tr.sell.qty,
                         !.qty = progress.qty + tr.buy.qty - tr.sell.qty]

\* What the computation leaves in last_snapshot.progress: the state as it
\* was, with cycle_trade set (vr_strategy.py line 164).
VRProgressAfterCalc(progress, ords) ==
    LET tr == VRTradeResults(ords)
    IN  [progress EXCEPT !.ct = TRUE, !.ct_buy_qty = tr.buy.qty,
                         !.ct_sell_qty = tr.sell.qty]

\* VRStrategy._calculate_next_state: [raised, state].  v * r_inc is
\* v + pool / g_factor (+ the advanced term), truncated to the cent.
VRCalcNextState(p, progress, ords, price) ==
    LET tr == VRTradeResults(VRFillsRead(ords))
        last_avg == progress.avg_price
        cycle_profit == tr.sell.value - tr.sell.qty * last_avg
        temp_qty == progress.qty - tr.sell.qty + tr.buy.qty
        temp_amount == (progress.qty - tr.sell.qty) * last_avg + tr.buy.value
        new_avg == IF temp_qty = 0 THEN 0
                   ELSE IF temp_qty > 0 THEN TruncDiv(temp_amount, temp_qty)
                   ELSE 0 - TruncDiv(temp_amount, 0 - temp_qty)
        temp_pool == progress.pool - tr.buy.value + tr.sell.value
        advanced == IF p.is_advanced
                    THEN TruncDiv((temp_qty * price - progress.v) * 10,
                                  2 * ISqrt(100 * p.g_factor))
                    ELSE 0
        new_v == progress.v + TruncDiv(progress.pool, p.g_factor) + advanced
                     + p.periodic_investment
        new_pool == temp_pool + p.periodic_investment
    IN  IF progress.v = 0
        THEN [raised |-> TRUE, state |-> progress]
        ELSE [raised |-> FALSE,
              state |-> [total_investment |-> progress.total_investment
                                                 + p.periodic_investment,
                         v |-> new_v, qty |-> temp_qty, pool |-> new_pool,
                         avg_price |-> new_avg,
                         equity |-> temp_qty * price + new_pool,
                         cycle_profit |-> cycle_profit,
                         error_msg |-> "absent",
                         ct |-> FALSE, ct_buy_qty |-> 0, ct_sell_qty |-> 0]]

(***************************************************************************)
(* Initial progress states.                                                *)
(***************************************************************************)
\* InfBuyStrategy._create_initial_snapshot
InfBuyInitialState(p) ==
    [current_t |-> 0, star |-> p.sell_gain, investment |-> p.initial_investment,
     unit_investment |-> IF p.initial_investment # 0
                         THEN p.initial_investment \div p.division ELSE 0,
     avg_price |-> 0, quantity |-> 0, balance |-> p.initial_investment,
     equity |-> p.initial_investment, daily_profit |-> 0, cycle |-> 0,
     error_msg |-> "absent"]

\* VRStrategy._create_initial_snapshot
VRInitialState(p) ==
    [total_investment |-> p.initial_investment, v |-> p.initial_investment,
     qty |-> 0, pool |-> p.initial_investment, avg_price |-> 0,
     equity |-> p.initial_investment, cycle_profit |-> 0,
     error_msg |-> "absent", ct |-> FALSE, ct_buy_qty |-> 0, ct_sell_qty |-> 0]

\* create_strategy: the progress of the INIT snapshot made with the Strategy.
\* The Value-Rebalancing keys written there (current_v, current_pool, ...)
\* are not the keys the engine reads, so the engine sees v, qty, pool absent.
EndpointInitState(p) ==
    IF p.strategy_code = "InfBuy"
    THEN [current_t |-> 0, star |-> p.sell_gain * 100, investment |-> 1000000,
          unit_investment |-> 1000000 \div p.division,
          avg_price |-> 0, quantity |-> 0, balance |-> 1000000,
          equity |-> 0, daily_profit |-> 0, cycle |-> 0, error_msg |-> "absent"]
    ELSE [total_investment |-> 0, v |-> 0, qty |-> 0, pool |-> 0, avg_price |-> 0,
          equity |-> 0, cycle_profit |-> 0,
          error_msg |-> "absent", ct |-> FALSE, ct_buy_qty |-> 0, ct_sell_qty |-> 0]

(***************************************************************************)
(* State.                                                                  *)
(*   params     the Strategy row (strategy_code and base_params)           *)
(*   now        the wall clock, in half-days                               *)
(*   snapshots  the strategy_snapshot rows of the Strategy, in creation    *)
(*              order; a row's id is its index                             *)
(*   orders     the order rows, in creation order                          *)
(*   trace      what the last run of the daily routine did (cleared when   *)
(*              time passes): how it ended, the snapshot it reconciled,    *)
(*              closed and placed orders for, the broker's answers and the *)
(*              quantity it accepted for sale                              *)
(*   retry      the snapshot whose order placement last ended on a closed  *)
(*              market with nothing accepted, 0 if none                    *)
(***************************************************************************)
VARIABLES params, now, snapshots, orders, trace, retry

vars == <<params, now, snapshots, orders, trace, retry>>

\* executed_at is only ever written, never read back by the engine: it is
\* kept as "None" or "set".
NewSnapshot(status, cycle, progress, t) ==
    [status |-> status, cycle |-> cycle, progress |-> progress,
     created_at |-> t, executed_at |-> "None"]

NoHist == [present |-> FALSE, status |-> "SUBMITTED", filled_qty |-> 0, filled_amt |-> 0]

NoTrace ==
    [kind |-> "none", placed_for |-> 0, status_before |-> "none", generated |-> 0,
     sendable |-> 0, sent |-> 0, accepted |-> 0, is_holiday |-> FALSE, closed |-> 0,
     created |-> 0, synced |-> 0, all_finalized |-> "unset", retry_before |-> 0,
     broker_error |-> "none", sold |-> 0]

\* BaseStrategy._get_last_snapshot: the row with the greatest created_at
\* (0 when the Strategy has no snapshot).
LastSnapshotId(snaps) == Len(snaps)

OrdersOf(ords, sid) == SelectSeq(ords, LAMBDA o : o.snapshot_id = sid)

(***************************************************************************)
(* Order reconciler: BaseStrategy._sync_snapshot_orders.  h is the         *)
(* history_map built from the broker's answer, by broker order id.         *)
(***************************************************************************)
\* Variant: an order the history does not list is written off as UNFILLED.
SyncOrderWriteOff(o, h) ==
    IF o.order_id \in DOMAIN h /\ h[o.order_id].present
    THEN [o EXCEPT !.order_status = h[o.order_id].status,
                   !.filled_qty = h[o.order_id].filled_qty]
    ELSE [o EXCEPT !.order_status = "UNFILLED"]

\* The loop body for one order of the snapshot.
SyncOrder(o, h) ==
    IF o.order_id \in DOMAIN h /\ h[o.order_id].present
    THEN LET info == h[o.order_id]
         IN  [o EXCEPT !.order_status = info.status,
                       !.filled_qty = info.filled_qty,
                       !.filled_price = IF info.filled_qty # 0
                                        THEN info.filled_amt \div info.filled_qty
                                        ELSE 0]
    ELSE o

\* The order table after the pass over the orders of snapshot sid.
SyncedOrders(ords, sid, h) ==
    [i \in 1..Len(ords) |->
        IF ords[i].snapshot_id = sid THEN SyncOrder(ords[i], h) ELSE ords[i]]

\* The value returned: None when the snapshot has no order, else whether
\* no order is left SUBMITTED.
SyncResult(ords, sid, h) ==
    LET mine == OrdersOf(SyncedOrders(ords, sid, h), sid)
    IN  IF mine = <<>> THEN "None"
        ELSE IF \A i \in 1..Len(mine) : mine[i].order_status # "SUBMITTED"
             THEN "True" ELSE "False"

\* Python truth value of the reconciler's result.
Truthy(r) == r = "True"

(***************************************************************************)
(* Order placement: BaseStrategy._place_orders and _save_order.            *)
(***************************************************************************)
Outcomes == {"accepted", "rejected_id", "rejected_noid", "holiday", "exception"}

\* BaseStrategy._save_order: the Order row built from a broker response.
SaveOrder(outcome, oid, sid, od) ==
    [order_id |-> oid, snapshot_id |-> sid,
     order_status |-> IF outcome = "accepted" THEN "SUBMITTED" ELSE "REJECTED",
     order_type |-> IF od.side = "BUY" THEN "BUY" ELSE "SELL",
     order_qty |-> od.qty, order_price |-> od.price,
     filled_qty |-> 0, filled_price |-> 0]

\* Variant: every generated order is submitted.
SkipsOrderNever(od) == FALSE

\* Lines 131-133: an order of quantity 0 or less is skipped.
SkipsOrder(od) == od.qty <= 0

\* The submission loop.  st = [i, k, rows, accepted, is_holiday, sent, ids,
\* errors], errors counting the submissions that raised:
\* i indexes the generated orders, k the broker outcomes consumed so far.
RECURSIVE PlaceLoop(_, _, _, _, _)
PlaceLoop(gen, outs, sid, base, st) ==
    IF st.i > Len(gen) THEN st
    ELSE LET od == gen[st.i]
         IN  IF SkipsOrder(od)
             THEN PlaceLoop(gen, outs, sid, base, [st EXCEPT !.i = st.i + 1])
             ELSE LET out == outs[st.k + 1]
                  IN  CASE out = "exception" ->
                             PlaceLoop(gen, outs, sid, base,
                                 [st EXCEPT !.i = st.i + 1, !.k = st.k + 1,
                                            !.errors = st.errors + 1])
                        [] out = "holiday" ->
                             [st EXCEPT !.is_holiday = TRUE, !.sent = st.sent + 1]
                        [] out = "accepted" ->
                             PlaceLoop(gen, outs, sid, base,
                                 [st EXCEPT !.i = st.i + 1, !.k = st.k + 1,
                                            !.sent = st.sent + 1,
                                            !.accepted = st.accepted + 1,
                                            !.ids = st.ids + 1,
                                            !.rows = Append(st.rows,
                                                SaveOrder(out, base + st.ids + 1, sid, od))])
                        [] out = "rejected_id" ->
                             PlaceLoop(gen, outs, sid, base,
                                 [st EXCEPT !.i = st.i + 1, !.k = st.k + 1,
                                            !.sent = st.sent + 1,
                                            !.ids = st.ids + 1,
                                            !.rows = Append(st.rows,
                                                SaveOrder(out, base + st.ids + 1, sid, od))])
                        [] OTHER ->
                             PlaceLoop(gen, outs, sid, base,
                                 [st EXCEPT !.i = st.i + 1, !.k = st.k + 1,
                                            !.sent = st.sent + 1,
                                            !.rows = Append(st.rows,
                                                SaveOrder(out, NoId, sid, od))])

GenerateOrders(p, progress, price) ==
    IF p.strategy_code = "InfBuy"
    THEN InfBuyGenerateOrders(p, progress, price)
    ELSE VRGenerateOrders(p, progress, price)

Sendable(gen) == Cardinality({i \in 1..Len(gen) : ~SkipsOrder(gen[i])})

\* The result dictionary of _place_orders, with the rows added to the session.
PlaceOrders(gen, outs, sid, base) ==
    IF gen.raised
    THEN [success |-> FALSE, submitted |-> 0, accepted |-> 0, is_holiday |-> FALSE,
          error_msg |-> "str", rows |-> <<>>, sent |-> 0, errors |-> 0]
    ELSE IF gen.orders = <<>>
    THEN [success |-> TRUE, submitted |-> 0, accepted |-> 0, is_holiday |-> FALSE,
          error_msg |-> "None", rows |-> <<>>, sent |-> 0, errors |-> 0]
    ELSE LET st == PlaceLoop(gen.orders, outs, sid, base,
                       [i |-> 1, k |-> 0, rows |-> <<>>, accepted |-> 0,
                        is_holiday |-> FALSE, sent |-> 0, ids |-> 0, errors |-> 0])
         IN  [success |-> st.accepted > 0, submitted |-> Len(gen.orders),
              accepted |-> st.accepted, is_holiday |-> st.is_holiday,
              error_msg |-> IF st.accepted = Len(gen.orders) THEN "None" ELSE "list",
              rows |-> st.rows, sent |-> st.sent, errors |-> st.errors]

\* Session.commit() of pending Order rows: order.order_id is NOT NULL, so a
\* row saved from a response without an order id makes the flush fail.
CommitFails(rows) == \E i \in 1..Len(rows) : rows[i].order_id = NoId

(***************************************************************************)
(* The daily routines.  A run is computed in two parts.  The first goes up *)
(* to the decision to place orders and yields a stage                      *)
(* [kind, snapshots, orders, trace, sid]: kind is "raised" or "returned"   *)
(* when the run ends there, "place" when orders are to be placed for the   *)
(* snapshot sid; snapshots and orders are the rows as last committed.  The *)
(* second part is order placement and the final commit.  What was not      *)
(* committed when a run raises is rolled back.                             *)
(***************************************************************************)
Stage(kind, snaps, ords, tr, sid) ==
    [kind |-> kind, snapshots |-> snaps, orders |-> ords, trace |-> tr, sid |-> sid]

Outcome(snaps, ords, tr, kind) ==
    [snapshots |-> snaps, orders |-> ords, trace |-> [tr EXCEPT !.kind = kind]]

\* Variant: the routine without its FAILED stop.
IsFailedIgnored(status) == FALSE

\* The FAILED test at the top of both routines.
IsFailed(status) == status = "FAILED"

\* The status test that guards order placement.
InfBuyPlaces(status) == status = "PENDING"

VRPlaces(status) == status \in {"PENDING", "IN_PROGRESS"}

\* inf_buy_strategy.py line 112: _calculate_next_state(last_snapshot) is
\* called without the current_price argument its signature requires, so the
\* call raises TypeError before the body runs.
InfBuyNextStateCall(p, snap, ords, price) ==
    [raised |-> TRUE, state |-> snap.progress]

\* Lines 113-123: the successor built from the calculator's answer.
InfBuySuccessor(t, snaps, ords, tr, call) ==
    IF call.raised
    THEN Stage("raised", snaps, ords, tr, 0)
    ELSE Stage("place",
               Append(snaps, NewSnapshot("PENDING", call.state.cycle, call.state, t)),
               ords, [tr EXCEPT !.created = tr.created + 1], Len(snaps) + 1)

\* Step 2 (lines 110-123) and the test of step 3 (lines 125-126).
InfBuyStep2(p, t, snaps, ords, sid, price, tr) ==
    IF snaps[sid].status = "COMPLETED"
    THEN InfBuySuccessor(t, snaps, ords, tr,
             InfBuyNextStateCall(p, snaps[sid], OrdersOf(ords, sid), price))
    ELSE IF InfBuyPlaces(snaps[sid].status)
    THEN Stage("place", snaps, ords, tr, sid)
    ELSE Stage("returned", snaps, ords, tr, 0)

\* Variant: an IN_PROGRESS snapshot is closed whatever the reconciler says.
InfBuyClosesUnchecked(status, all_finalized) == status = "IN_PROGRESS"

\* The test of line 103.
InfBuyCloses(status, all_finalized) == Truthy(all_finalized) /\ status = "IN_PROGRESS"

\* Lines 103-108, with ords the reconciled order table and r the
\* reconciler's result, then step 2.
InfBuyAfterSync(p, t, snaps, ords, sid, price, tr, r) ==
    IF InfBuyCloses(snaps[sid].status, r)
    THEN InfBuyStep2(p, t, [snaps EXCEPT ![sid].status = "COMPLETED"], ords, sid, price,
                     [tr EXCEPT !.synced = sid, !.all_finalized = r, !.closed = sid])
    ELSE InfBuyStep2(p, t, snaps, ords, sid, price,
                     [tr EXCEPT !.synced = sid, !.all_finalized = r])

\* Step 1 (lines 100-108), then the rest.
InfBuyStep1(p, t, snaps, ords, sid, price, histOK, h, tr) ==
    IF snaps[sid].status = "IN_PROGRESS"
    THEN IF OrdersOf(ords, sid) # <<>> /\ ~histOK
         THEN Stage("raised", snaps, ords, [tr EXCEPT !.broker_error = "history"], 0)
         ELSE InfBuyAfterSync(p, t, snaps, SyncedOrders(ords, sid, h), sid, price, tr,
                              SyncResult(ords, sid, h))
    ELSE InfBuyStep2(p, t, snaps, ords, sid, price, tr)

\* Lines 95-97, then steps 1 and 2.
InfBuyFromLast(p, t, snaps, ords, price, histOK, h, tr) ==
    IF IsFailed(snaps[LastSnapshotId(snaps)].status)
    THEN Stage("returned", snaps, ords, tr, 0)
    ELSE InfBuyStep1(p, t, snaps, ords, LastSnapshotId(snaps), price, histOK, h, tr)

\* InfBuyStrategy.execute_daily_routine up to order placement.
InfBuyRoutine(p, t, snaps, ords, priceOK, price, histOK, h) ==
    IF ~priceOK
    THEN Stage("raised", snaps, ords, [NoTrace EXCEPT !.broker_error = "price"], 0)
    ELSE IF LastSnapshotId(snaps) = 0
    THEN InfBuyFromLast(p, t,
             Append(snaps, NewSnapshot("COMPLETED", 0, InfBuyInitialState(p), t)),
             ords, price, histOK, h, [NoTrace EXCEPT !.created = 1])
    ELSE InfBuyFromLast(p, t, snaps, ords, price, histOK, h, NoTrace)

\* days_passed (vr_strategy.py lines 77-80): created_at is stored as KST wall
\* time, read back as if it were UTC and shifted by +9h, so a snapshot created
\* at or after 15:00 counts from the next day.
DaysPassed(t, created_at) == (t \div 2) - ((created_at + 1) \div 2)

\* The test of line 82.
VRCloses(days_passed, all_finalized) == days_passed >= CycleDays /\ Truthy(all_finalized)

\* Variant: the closed snapshot keeps its status.
VRMarkCompletedSkipped(snaps, sid) == snaps

\* Line 84: the snapshot is marked COMPLETED (committed by the calculator's
\* own commit, before the successor exists).
VRMarkCompleted(snaps, sid) == [snaps EXCEPT ![sid].status = "COMPLETED"]

\* Lines 88-99: the successor built from the calculator's answer; closed
\* holds the snapshots with the old one marked COMPLETED.
VRSuccessor(t, closed, ords, sid, tr, calc) ==
    IF calc.raised
    THEN Stage("raised", closed, ords, tr, 0)
    ELSE Stage("place",
               Append(closed, NewSnapshot("PENDING", closed[sid].cycle + 1, calc.state, t)),
               ords, [tr EXCEPT !.created = tr.created + 1], Len(closed) + 1)

\* Lines 77-104, with ords the reconciled order table and r the reconciler's
\* result.
VRAfterSync(p, t, snaps, ords, sid, price, tr, r) ==
    IF VRCloses(DaysPassed(t, snaps[sid].created_at), r)
    THEN VRSuccessor(t, VRMarkCompleted(snaps, sid), ords, sid,
                     [tr EXCEPT !.synced = sid, !.all_finalized = r, !.closed = sid],
                     VRCalcNextState(p, snaps[sid].progress, OrdersOf(ords, sid), price))
    ELSE IF VRPlaces(snaps[sid].status)
    THEN Stage("place", snaps, ords, [tr EXCEPT !.synced = sid, !.all_finalized = r], sid)
    ELSE Stage("returned", snaps, ords, [tr EXCEPT !.synced = sid, !.all_finalized = r], 0)

\* Lines 69-73, then the rest.
VRFromLast(p, t, snaps, ords, price, histOK, h, tr) ==
    IF IsFailed(snaps[LastSnapshotId(snaps)].status)
    THEN Stage("returned", snaps, ords, tr, 0)
    ELSE IF OrdersOf(ords, LastSnapshotId(snaps)) # <<>> /\ ~histOK
    THEN Stage("raised", snaps, ords, [tr EXCEPT !.broker_error = "history"], 0)
    ELSE VRAfterSync(p, t, snaps, SyncedOrders(ords, LastSnapshotId(snaps), h),
                     LastSnapshotId(snaps), price, tr,
                     SyncResult(ords, LastSnapshotId(snaps), h))

\* VRStrategy.execute_daily_routine up to order placement.
VRRoutine(p, t, snaps, ords, priceOK, price, histOK, h) ==
    IF ~priceOK
    THEN Stage("raised", snaps, ords, [NoTrace EXCEPT !.broker_error = "price"], 0)
    ELSE IF LastSnapshotId(snaps) = 0
    THEN VRFromLast(p, t, Append(snaps, NewSnapshot("PENDING", 1, VRInitialState(p), t)),
                    ords, price, histOK, h, [NoTrace EXCEPT !.created = 1])
    ELSE VRFromLast(p, t, snaps, ords, price, histOK, h, NoTrace)

\* The routine of the Strategy's strategy_code (scheduler.py lines 123-156),
\* on the inputs in = [priceOK, price, histOK, h].
Routine(p, t, snaps, ords, in) ==
    IF p.strategy_code = "InfBuy"
    THEN InfBuyRoutine(p, t, snaps, ords, in.priceOK, in.price, in.histOK, in.h)
    ELSE VRRoutine(p, t, snaps, ords, in.priceOK, in.price, in.histOK, in.h)

\* InfBuy step 3 after _place_orders returned: the snapshot as updated in
\* the session (inf_buy_strategy.py lines 128-142).
InfBuyAfterPlacement(snap, res) ==
    IF res.success
    THEN [snap EXCEPT !.status = "IN_PROGRESS", !.executed_at = "set"]
    ELSE IF res.is_holiday
    THEN [snap EXCEPT !.executed_at = "None"]
    ELSE [snap EXCEPT !.status = "FAILED", !.executed_at = "None",
                      !.progress.error_msg = res.error_msg]

\* Variant: a closed market is treated like any other failure.
VRAfterPlacementStrict(snap, res) ==
    IF res.success
    THEN [snap EXCEPT !.status = "IN_PROGRESS", !.executed_at = "set",
                      !.progress.error_msg = res.error_msg]
    ELSE [snap EXCEPT !.status = "FAILED", !.progress.error_msg = res.error_msg]

\* VR order placement epilogue (vr_strategy.py lines 107-121).
VRAfterPlacement(snap, res) ==
    IF res.success
    THEN [snap EXCEPT !.status = "IN_PROGRESS", !.executed_at = "set",
                      !.progress.error_msg = res.error_msg]
    ELSE IF res.is_holiday
    THEN [snap EXCEPT !.progress.error_msg = res.error_msg]
    ELSE [snap EXCEPT !.status = "FAILED", !.progress.error_msg = res.error_msg]

AfterPlacement(p, snap, res) ==
    IF p.strategy_code = "InfBuy"
    THEN InfBuyAfterPlacement(snap, res)
    ELSE VRAfterPlacement(snap, res)

\* The quantity of the SELL orders the broker accepted among the submissions
\* that left the rows given.
SoldQty(rows) ==
    SumSeq([i \in 1..Len(rows) |->
               IF rows[i].order_type = "SELL" /\ rows[i].order_status = "SUBMITTED"
               THEN rows[i].order_qty ELSE 0])

\* What the run reports of a placement with generated orders gen and
\* result res.
PlacementTrace(st, gen, res) ==
    [st.trace EXCEPT !.placed_for = st.sid,
                     !.status_before = st.snapshots[st.sid].status,
                     !.generated = Len(gen.orders),
                     !.sendable = Sendable(gen.orders),
                     !.sent = res.sent, !.accepted = res.accepted,
                     !.is_holiday = res.is_holiday,
                     !.sold = SoldQty(res.rows),
                     !.broker_error = IF res.errors > 0 THEN "order"
                                      ELSE st.trace.broker_error]

\* Order placement for the snapshot of stage st and the final commit, common
\* to both routines: gen is what _generate_orders yields and res what
\* _place_orders returns.
PlaceAndCommit(p, st, gen, res) ==
    IF gen.hang
    THEN Outcome(st.snapshots, st.orders,
                 [st.trace EXCEPT !.placed_for = st.sid,
                                  !.status_before = st.snapshots[st.sid].status], "hung")
    ELSE IF CommitFails(res.rows)
    THEN Outcome(st.snapshots, st.orders, PlacementTrace(st, gen, res), "raised")
    ELSE Outcome([st.snapshots EXCEPT ![st.sid] = AfterPlacement(p, st.snapshots[st.sid], res)],
                 st.orders \o res.rows, PlacementTrace(st, gen, res), "returned")

(***************************************************************************)
(* Inputs of a run and the initial database.                               *)
(***************************************************************************)
\* Prices the broker quotes (cents).  For the initial Value-Rebalancing state
\* the lower price gives a batch of two orders, the higher one none.
Prices(p) == IF p.strategy_code = "InfBuy" THEN {40000, 60000} ELSE {4000, 40000}

\* Progress states an operator posts with a PENDING snapshot
\* (create_strategy_snapshot): a cold start, a held position, and a position
\* past the last round (T = 19.5 of 20).
OperatorStates(p) ==
    IF p.strategy_code = "InfBuy"
    THEN {[InfBuyInitialState(p) EXCEPT !.cycle = 1],
          [current_t |-> 80, star |-> 18, investment |-> 1000000,
           unit_investment |-> 50000, avg_price |-> 40000, quantity |-> 1,
           balance |-> 960000, equity |-> 1000000, daily_profit |-> 0, cycle |-> 1,
           error_msg |-> "absent"],
          [current_t |-> 1950, star |-> -19, investment |-> 1000000,
           unit_investment |-> 50000, avg_price |-> 48750, quantity |-> 2,
           balance |-> 902500, equity |-> 1000000, daily_profit |-> 0, cycle |-> 1,
           error_msg |-> "absent"]}
    ELSE {}

InitialSnapshots(p) ==
    {<<>>, <<NewSnapshot("INIT", 0, EndpointInitState(p), 0)>>}
        \cup {<<NewSnapshot("PENDING", 1, st, 0)>> : st \in OperatorStates(p)}

\* Broker outcome sequences for n submissions; what follows a closed-market
\* answer is never read.
OutSeqs(n) ==
    {f \in [1..n -> Outcomes] :
        \A i \in 1..n : \A j \in 1..n : (i < j /\ f[i] = "holiday") => f[j] = "holiday"}

\* History records the broker may report for an order it accepted
\* (parse_history_response); a CANCELLED or REJECTED record acts as UNFILLED,
\* and a record of an order still open leaves the row as it is, like no
\* record.
HistRecords(o) ==
    {NoHist,
     [present |-> TRUE, status |-> "UNFILLED", filled_qty |-> 0, filled_amt |-> 0],
     [present |-> TRUE, status |-> "FILLED", filled_qty |-> o.order_qty,
      filled_amt |-> o.order_qty * o.order_price]}
    \cup (IF o.order_qty > 1
          THEN {[present |-> TRUE, status |-> "PARTIALLY_FILLED", filled_qty |-> 1,
                 filled_amt |-> o.order_price]}
          ELSE {})

\* The history maps a query for snapshot sid may yield: one record or none
\* for each of its orders the broker still works on.
HistInputs(ords, sid) ==
    LET open == {i \in 1..Len(ords) :
                    ords[i].snapshot_id = sid /\ ords[i].order_status = "SUBMITTED"}
        ids == {ords[i].order_id : i \in open}
        recs == UNION {HistRecords(ords[i]) : i \in open}
    IN  {f \in [ids -> recs] :
            \A i \in open : f[ords[i].order_id] \in HistRecords(ords[i])}

\* Whether a run gets as far as asking the broker for the history.
QueriesHistory(p, snaps, ords) ==
    LET sid == LastSnapshotId(snaps)
    IN  /\ sid > 0
        /\ ~IsFailed(snaps[sid].status)
        /\ OrdersOf(ords, sid) # <<>>
        /\ p.strategy_code = "InfBuy" => snaps[sid].status = "IN_PROGRESS"

\* What the broker answers to a run before order placement: the price lookup
\* fails, or the history query fails, or both answer.
RunInputs ==
    {[priceOK |-> FALSE, price |-> 0, histOK |-> TRUE, h |-> <<>>]}
    \cup {[priceOK |-> TRUE, price |-> price, histOK |-> FALSE, h |-> <<>>] :
             price \in IF QueriesHistory(params, snapshots, orders)
                       THEN Prices(params) ELSE {}}
    \cup {[priceOK |-> TRUE, price |-> price, histOK |-> TRUE, h |-> h] :
             price \in Prices(params),
             h \in HistInputs(orders, LastSnapshotId(snapshots))}

Init ==
    /\ params \in {InfBuyParams, VRParams}
    /\ now = 0
    /\ snapshots \in InitialSnapshots(params)
    /\ orders = <<>>
    /\ trace = NoTrace
    /\ retry = 0

(***************************************************************************)
(* Actions.                                                                *)
(***************************************************************************)
\* The snapshot a later run is expected to place orders for again.
RetryOf(tr) ==
    IF tr.placed_for # 0 /\ tr.is_holiday /\ tr.accepted = 0 THEN tr.placed_for
    ELSE IF tr.kind = "raised" /\ tr.placed_for = 0 THEN retry
    ELSE 0

Apply(r) ==
    /\ Len(r.snapshots) <= MaxSnapshots
    /\ Len(r.orders) <= MaxOrders
    /\ snapshots' = r.snapshots
    /\ orders' = r.orders
    /\ trace' = [r.trace EXCEPT !.retry_before = retry]
    /\ retry' = RetryOf(r.trace)
    /\ UNCHANGED <<params, now>>

\* Order placement with the generated orders gen: the broker answers each
\* submission.
PlaceFor(st, gen) ==
    \E outs \in OutSeqs(Sendable(gen.orders)) :
        Apply(PlaceAndCommit(params, st, gen,
                             PlaceOrders(gen, outs, st.sid, Len(st.orders))))

\* The end of a run that got to stage st.
Finish(st, price) ==
    IF st.kind = "place"
    THEN PlaceFor(st, GenerateOrders(params, st.snapshots[st.sid].progress, price))
    ELSE Apply(Outcome(st.snapshots, st.orders, st.trace, st.kind))

\* One run of execute_daily_routine (scheduler batch or manual start).
ExecuteDailyRoutine ==
    \E in \in RunInputs :
        Finish(Routine(params, now, snapshots, orders, in), in.price)

\* The instants at which runs are started: both halves of the day the clock
\* starts on, and the days around the end of a 14-day cycle begun that day.
\* The Averaging routine never reads the clock and is followed for a day.
Horizon(p) == IF p.strategy_code = "VR" THEN MaxNow ELSE MaxNowAveraging

RunTimes(p) == {t \in 0..Horizon(p) : t <= 1 \/ t >= 2 * CycleDays - 1}

\* Time passes until the next of these instants.  The clock is followed from
\* the first run of a Strategy without snapshot on.
AdvanceClock ==
    /\ snapshots # <<>> \/ now < 1
    /\ \E t \in RunTimes(params) :
          /\ t > now
          /\ \A u \in RunTimes(params) : u > now => t <= u
          /\ now' = t
    /\ UNCHANGED <<params, snapshots, orders, retry>>
    /\ trace' = NoTrace

Next == ExecuteDailyRoutine \/ AdvanceClock

Spec == Init /\ [][Next]_vars

(***************************************************************************)
(* Properties of the snapshot lifecycle.                                   *)
(***************************************************************************)
Latest == snapshots[LastSnapshotId(snapshots)]

OpenSnapshots == {i \in 1..Len(snapshots) : snapshots[i].status \in {"PENDING", "IN_PROGRESS"}}

\* A run of the routine ended (returned, raised, or hangs) in this state.
RunEnded == trace.kind \in {"returned", "raised", "hung"}

\* C1: in every reachable state, whatever runs came before and however they
\* ended, at most one snapshot of the Strategy is PENDING or IN_PROGRESS.
C1_OneOpenSnapshot == Cardinality(OpenSnapshots) <= 1

\* A cycle was closed and its successor is the single open snapshot, and a
\* later run raised part-way.
C1_Witness ==
    /\ Len(snapshots) = 2
    /\ snapshots[1].status = "COMPLETED"
    /\ OpenSnapshots = {2}
    /\ trace.kind = "raised"

\* C2: when the latest snapshot is FAILED, a run sends nothing to the broker
\* and leaves the snapshot and order tables exactly as they are, so the
\* snapshot stays FAILED.
C2_FailedStops ==
    [][(snapshots # <<>> /\ Latest.status = "FAILED")
          => /\ snapshots' = snapshots
             /\ orders' = orders
             /\ trace'.sent = 0
             /\ trace'.placed_for = 0]_vars

\* A run returned at once on a FAILED snapshot.
C2_Witness ==
    /\ snapshots # <<>>
    /\ Latest.status = "FAILED"
    /\ trace.kind = "returned"
    /\ trace.placed_for = 0

(***************************************************************************)
(* Properties of order placement.                                          *)
(***************************************************************************)
\* The snapshot the run placed orders for, as the run left it.
Placed == snapshots[trace.placed_for]

\* The run went through order generation and submission and ended.
PlacementEnded == trace.placed_for # 0 /\ trace.kind \in {"returned", "raised"}

\* C3: a run that generates and submits orders for a snapshot leaves it
\* IN_PROGRESS with executed_at set if the broker accepted at least one
\* order, and FAILED with the error recorded if it accepted none (every
\* order rejected, or none generated) and reported no closed market; so a
\* snapshot turns IN_PROGRESS only in a run with an acceptance.
C3_PlacementOutcome ==
    PlacementEnded =>
        /\ trace.accepted >= 1 =>
              Placed.status = "IN_PROGRESS" /\ Placed.executed_at = "set"
        /\ (trace.accepted = 0 /\ ~trace.is_holiday) =>
              Placed.status = "FAILED" /\ Placed.progress.error_msg \in {"list", "str"}
        /\ (Placed.status = "IN_PROGRESS" /\ trace.status_before # "IN_PROGRESS") =>
              trace.accepted >= 1

\* C4: when a run gets no order accepted and the broker reports the market
\* closed, the snapshot keeps the status it had before placement, and the
\* next run that gets as far as order placement places orders for that same
\* snapshot.
ReachedPlacementStage == RunEnded /\ ~(trace.kind = "raised" /\ trace.placed_for = 0)

C4_ClosedMarketRetry ==
    /\ (PlacementEnded /\ trace.accepted = 0 /\ trace.is_holiday) =>
          Placed.status = trace.status_before
    /\ (trace.retry_before # 0 /\ ReachedPlacementStage) =>
          trace.placed_for = trace.retry_before

\* C4 as the code has it: the status is kept, and the next run that gets as
\* far as order placement places orders for the same snapshot unless it is a
\* Value-Rebalancing run that first closes that snapshot, which then places
\* orders for the successor.
C4_ClosedMarketRetryUnlessClosed ==
    /\ (PlacementEnded /\ trace.accepted = 0 /\ trace.is_holiday) =>
          Placed.status = trace.status_before
    /\ (trace.retry_before # 0 /\ ReachedPlacementStage) =>
          \/ trace.closed = 0 /\ trace.placed_for = trace.retry_before
          \/ /\ params.strategy_code = "VR"
             /\ trace.closed = trace.retry_before
             /\ trace.placed_for = trace.retry_before + 1

\* A run ended on a closed market with nothing accepted, and so had the run
\* before it, for the same snapshot.
C4_Witness ==
    /\ PlacementEnded
    /\ trace.accepted = 0
    /\ trace.is_holiday
    /\ trace.retry_before = trace.placed_for
    /\ retry = trace.placed_for

(***************************************************************************)
(* Properties of cycle closing.                                            *)
(***************************************************************************)
\* C5: a run that marks a snapshot COMPLETED creates exactly one new
\* snapshot, the latest one, whose cycle number is the closed snapshot's
\* plus one, in both variants.
C5_CloseCreatesSuccessor ==
    (RunEnded /\ trace.closed # 0) =>
        /\ trace.created = 1
        /\ Len(snapshots) = trace.closed + 1
        /\ snapshots[trace.closed].status = "COMPLETED"
        /\ Latest.cycle = snapshots[trace.closed].cycle + 1

\* Shares held for snapshot sid once its orders are reconciled: the quantity
\* of its progress state plus filled buys minus filled sells.
RECURSIVE SignedFills(_)
SignedFills(ords) ==
    IF ords = <<>> THEN 0
    ELSE (IF Head(ords).order_type = "BUY" THEN Head(ords).filled_qty
          ELSE 0 - Head(ords).filled_qty) + SignedFills(Tail(ords))

HeldQuantity(sid) == snapshots[sid].progress.quantity + SignedFills(OrdersOf(orders, sid))

\* C6: an Averaging run marks a snapshot COMPLETED only when the quantity
\* held after reconciliation is zero.
C6_ClosedOnlyWhenFlat ==
    (params.strategy_code = "InfBuy" /\ RunEnded /\ trace.closed # 0) =>
        HeldQuantity(trace.closed) = 0

\* C6 as the code has it: an Averaging run turns a snapshot COMPLETED only
\* if the snapshot was IN_PROGRESS, has at least one order and none of its
\* orders is SUBMITTED after reconciliation; the quantity held plays no part.
C6_ClosedOnlyWhenFinalized ==
    [][params.strategy_code = "InfBuy" =>
        \A i \in 1..Len(snapshots) :
            (snapshots[i].status # "COMPLETED" /\ snapshots'[i].status = "COMPLETED") =>
                /\ snapshots[i].status = "IN_PROGRESS"
                /\ trace'.closed = i
                /\ OrdersOf(orders', i) # <<>>
                /\ \A k \in 1..Len(orders') :
                      orders'[k].snapshot_id = i => orders'[k].order_status # "SUBMITTED"]_vars

\* An Averaging run closed a snapshot while shares are held.
C6_Witness ==
    /\ params.strategy_code = "InfBuy"
    /\ RunEnded
    /\ trace.closed # 0
    /\ snapshots[trace.closed].status = "COMPLETED"
    /\ HeldQuantity(trace.closed) > 0

\* Calendar days between the creation day of a snapshot and the day of t.
CalendarDays(t, created_at) == (t \div 2) - (created_at \div 2)

\* C7: a Value-Rebalancing run on an open snapshot closes it and creates the
\* successor exactly when 14 calendar days have passed since its creation
\* and none of its orders is SUBMITTED after reconciliation (in particular
\* when it has no order at all).
C7_VRClosesIff ==
    [][(/\ params.strategy_code = "VR"
        /\ OpenSnapshots # {}
        /\ trace'.synced = LastSnapshotId(snapshots)) =>
          ((trace'.closed = trace'.synced /\ trace'.created = 1)
              <=> /\ CalendarDays(now, Latest.created_at) >= CycleDays
                  /\ \A k \in 1..Len(orders) :
                        orders'[k].snapshot_id = trace'.synced
                            => orders'[k].order_status # "SUBMITTED")]_vars

(***************************************************************************)
(* The order reconciler on its own: one pass of _sync_snapshot_orders over *)
(* any order table of up to MaxSyncOrders rows spread over two snapshots,  *)
(* with any broker history.  orders holds the table, trace the snapshot    *)
(* reconciled, the history map, the table before the pass and the result.  *)
(***************************************************************************)
\* Order rows a table may hold: a two-share buy in each state the broker's
\* reports can leave it in.
SyncRows(id) ==
    {[order_id |-> id, snapshot_id |-> sid, order_status |-> st.status,
      order_type |-> "BUY", order_qty |-> 2, order_price |-> 5000,
      filled_qty |-> st.filled_qty, filled_price |-> st.filled_price] :
        sid \in 1..2,
        st \in {[status |-> "SUBMITTED", filled_qty |-> 0, filled_price |-> 0],
                [status |-> "PARTIALLY_FILLED", filled_qty |-> 1, filled_price |-> 5000],
                [status |-> "FILLED", filled_qty |-> 2, filled_price |-> 5000],
                [status |-> "UNFILLED", filled_qty |-> 0, filled_price |-> 0]}}

SyncTables ==
    UNION {{t \in [1..n -> UNION {SyncRows(id) : id \in 1..n}] :
                \A i \in 1..n : t[i].order_id = i} : n \in 0..MaxSyncOrders}

\* Records parse_history_response can yield for such an order.
SyncRecords ==
    {NoHist,
     [present |-> TRUE, status |-> "SUBMITTED", filled_qty |-> 0, filled_amt |-> 0],
     [present |-> TRUE, status |-> "PARTIALLY_FILLED", filled_qty |-> 1, filled_amt |-> 4900],
     [present |-> TRUE, status |-> "FILLED", filled_qty |-> 2, filled_amt |-> 9800],
     [present |-> TRUE, status |-> "UNFILLED", filled_qty |-> 0, filled_amt |-> 0]}

SyncInit ==
    /\ params = VRParams
    /\ now = 0
    /\ snapshots = <<>>
    /\ retry = 0
    /\ orders \in SyncTables
    /\ \E sid \in 1..2 : \E h \in [1..Len(orders) -> SyncRecords] :
          trace = [kind |-> "to_sync", sid |-> sid, h |-> h, before |-> orders,
                   result |-> "unset"]

\* BaseStrategy._sync_snapshot_orders
SyncSnapshotOrders ==
    /\ trace.kind = "to_sync"
    /\ orders' = SyncedOrders(orders, trace.sid, trace.h)
    /\ trace' = [trace EXCEPT !.kind = "synced",
                              !.result = SyncResult(orders, trace.sid, trace.h)]
    /\ UNCHANGED <<params, now, snapshots, retry>>

SyncNext == SyncSnapshotOrders

SyncSpec == SyncInit /\ [][SyncNext]_vars

\* C8: whatever the number of orders of the snapshot, none included, the
\* reconciler's result is true exactly when none of them is SUBMITTED after
\* the pass, and false otherwise.
C8_ResultIffNoneSubmitted ==
    trace.kind = "synced" =>
        /\ trace.result \in {"True", "False"}
        /\ trace.result = "True"
              <=> \A i \in 1..Len(orders) :
                     orders[i].snapshot_id = trace.sid
                         => orders[i].order_status # "SUBMITTED"

\* C9: a pass leaves unchanged every order of the snapshot whose broker id
\* the history does not list, and every order of another snapshot.
C9_SyncFrame ==
    trace.kind = "synced" =>
        /\ Len(orders) = Len(trace.before)
        /\ \A i \in 1..Len(orders) :
              (trace.before[i].snapshot_id # trace.sid \/ ~trace.h[i].present)
                  => orders[i] = trace.before[i]

\* A pass updated one order of the snapshot from the history, met another of
\* its orders the history does not list, and the history also listed, with
\* different figures, an order of another snapshot.
C9_Witness ==
    /\ trace.kind = "synced"
    /\ \E i \in 1..Len(orders) :
          /\ trace.before[i].snapshot_id = trace.sid
          /\ trace.before[i].order_status = "SUBMITTED"
          /\ ~trace.h[i].present
    /\ \E i \in 1..Len(orders) :
          /\ trace.before[i].snapshot_id # trace.sid
          /\ trace.h[i].present
          /\ trace.h[i].status # trace.before[i].order_status

(***************************************************************************)
(* The next-state calculators on their own: _calculate_next_state applied  *)
(* twice to one completed snapshot.  snapshots holds that snapshot as the  *)
(* session has it in memory, orders its orders, trace the price and the    *)
(* states returned so far.                                                 *)
(***************************************************************************)
\* Orders of the completed snapshot: two-share orders, filled, partly filled
\* or unfilled.
CalcRows(id) ==
    {[order_id |-> id, snapshot_id |-> 1, order_status |-> st.status,
      order_type |-> side, order_qty |-> 2, order_price |-> 5000,
      filled_qty |-> st.filled_qty, filled_price |-> st.filled_price] :
        side \in {"BUY", "SELL"},
        st \in {[status |-> "PARTIALLY_FILLED", filled_qty |-> 1, filled_price |-> 4900],
                [status |-> "FILLED", filled_qty |-> 2, filled_price |-> 5100],
                [status |-> "UNFILLED", filled_qty |-> 0, filled_price |-> 0]}}

CalcTables ==
    UNION {{t \in [1..n -> UNION {CalcRows(id) : id \in 1..n}] :
                \A i \in 1..n : t[i].order_id = i} : n \in 0..MaxCalcOrders}

\* Progress states of the completed snapshot: the initial one and one with
\* shares held.
CalcStates(p) ==
    IF p.strategy_code = "InfBuy"
    THEN OperatorStates(p)
    ELSE {VRInitialState(p),
          [VRInitialState(p) EXCEPT !.qty = 3, !.avg_price = 5000, !.pool = 985000]}

CalcInit ==
    /\ params \in {InfBuyParams, VRParams}
    /\ now = 0
    /\ retry = 0
    /\ orders \in CalcTables
    /\ \E st \in CalcStates(params) : snapshots = <<NewSnapshot("COMPLETED", 1, st, 0)>>
    /\ \E price \in Prices(params) :
          trace = [kind |-> "to_calc", price |-> price, results |-> <<>>]

\* One call of _calculate_next_state(last_snapshot, current_price).
CalculateNextState ==
    /\ Len(trace.results) < 2
    /\ LET snap == snapshots[1]
           ords == OrdersOf(orders, 1)
           res == IF params.strategy_code = "InfBuy"
                  THEN [raised |-> FALSE,
                        state |-> InfBuyCalcNextState(params, snap.cycle, snap.progress,
                                                      ords, trace.price)]
                  ELSE VRCalcNextState(params, snap.progress, ords, trace.price)
           after == IF params.strategy_code = "InfBuy"
                    THEN InfBuyProgressAfterCalc(snap.progress, res.state)
                    ELSE VRProgressAfterCalc(snap.progress, ords)
       IN  /\ trace' = [trace EXCEPT !.kind = "calc", !.results = Append(@, res)]
           /\ snapshots' = [snapshots EXCEPT ![1].progress = after]
    /\ UNCHANGED <<params, now, orders, retry>>

CalcNext == CalculateNextState

CalcSpec == CalcInit /\ [][CalcNext]_vars

\* C10: in both variants, computing the next state twice from the same
\* completed snapshot, orders and price gives the same result twice; what
\* the first computation leaves behind does not change the second.
C10_CalcTwiceSame ==
    Len(trace.results) = 2 => trace.results[1] = trace.results[2]

\* The Value-Rebalancing state was computed twice from a snapshot with
\* filled orders: the first computation wrote the trade sums into the
\* snapshot's progress, and the result differs from the snapshot's own state.
C10_Witness ==
    /\ Len(trace.results) = 2
    /\ params.strategy_code = "VR"
    /\ \E i \in 1..Len(orders) : IsFilled(orders[i])
    /\ snapshots[1].progress.ct
    /\ ~trace.results[1].raised
    /\ trace.results[1].state.qty # snapshots[1].progress.qty


(***************************************************************************)
(* Properties of the first run, of batches and of the order generators.    *)
(***************************************************************************)
\* The run synthesized the Strategy's first snapshot.
FirstRun == RunEnded /\ trace.created > 0 /\ Len(snapshots) = trace.created

\* The statuses from which an Averaging run goes on to order generation:
\* PENDING directly, COMPLETED through the successor it creates.
InfBuyGeneratesFrom(status) == status \in {"PENDING", "COMPLETED"}

\* C11: the first run of an Averaging Strategy without snapshot synthesizes
\* a snapshot with T = 0, quantity = 0 and balance = initial_investment, the
\* run does not raise, and the latest snapshot has a status from which order
\* generation runs.
C11_FirstTickReady ==
    (params.strategy_code = "InfBuy" /\ FirstRun) =>
        /\ snapshots[1].progress.current_t = 0
        /\ snapshots[1].progress.quantity = 0
        /\ snapshots[1].progress.balance = params.initial_investment
        /\ trace.kind = "returned"
        /\ InfBuyGeneratesFrom(Latest.status)


(***************************************************************************)
(* The scheduled batch on its own: execute_all_daily_routines over any     *)
(* table of up to MaxBatch Strategy rows.  A routine is taken by the way   *)
(* it ends.  trace holds the rows, the ACTIVE rows as queried, the         *)
(* position of the loop, how often each row's routine was invoked and how  *)
(* each iteration ended.                                                   *)
(***************************************************************************)
MaxBatch == 3

\* Strategy rows: status, the broker of the account account_name points to
\* ("absent" when there is no such account) and strategy_code.
BatchRows ==
    [status : {"ACTIVE", "PAUSED"}, broker : {"KIS", "absent", "other"},
     strategy_code : {"InfBuy", "VR", "unknown"}]

\* The ways a daily routine ends: it returns, raises, or never returns.
RoutineKinds == {"returned", "raised", "hung"}

\* The rows the query of lines 91-93 returns.
RECURSIVE ActiveStrategies(_, _)
ActiveStrategies(rows, i) ==
    IF i > Len(rows) THEN <<>>
    ELSE (IF rows[i].status = "ACTIVE" THEN <<i>> ELSE <<>>)
             \o ActiveStrategies(rows, i + 1)

\* How _execute_strategy_routine ends before the routine is invoked, "run"
\* when it gets to invoke it: get_broker returns None for a missing account
\* and raises for an unsupported broker; an unknown strategy_code returns.
BeforeRoutine(row) ==
    IF row.broker = "absent" THEN "no_broker"
    ELSE IF row.broker # "KIS" THEN "raised"
    ELSE IF row.strategy_code \notin {"InfBuy", "VR"} THEN "unknown_code"
    ELSE "run"

\* Variant: an exception ends the batch.
AfterExceptionAbort(pos, n) == n + 1

\* Lines 105-110: rollback, log, continue with the next Strategy.
AfterException(pos, n) == pos + 1

BatchInit ==
    /\ params = VRParams
    /\ now = 0
    /\ snapshots = <<>>
    /\ orders = <<>>
    /\ retry = 0
    /\ \E n \in 0..MaxBatch : \E rows \in [1..n -> BatchRows] :
          trace = [kind |-> "idle", rows |-> rows, active |-> <<>>, pos |-> 0,
                   invoked |-> [i \in 1..n |-> 0], ended |-> [i \in 1..n |-> "none"]]

\* Lines 82-99: the session is opened and the ACTIVE Strategies are queried.
BatchQuery ==
    /\ trace.kind = "idle"
    /\ trace' = [trace EXCEPT !.active = ActiveStrategies(trace.rows, 1),
                              !.pos = 1,
                              !.kind = IF ActiveStrategies(trace.rows, 1) = <<>>
                                       THEN "done" ELSE "running"]
    /\ UNCHANGED <<params, now, snapshots, orders, retry>>

\* The position and state of the loop after an iteration that went on to
\* position next.
BatchAt(tr, next) ==
    [tr EXCEPT !.pos = next,
               !.kind = IF next > Len(tr.active) THEN "done" ELSE "running"]

\* Lines 101-110: one iteration of the loop, for the row at the loop's
\* position, its routine ending as kind says when it is invoked.
BatchIteration(tr, id, before, kind) ==
    IF before # "run"
    THEN BatchAt([tr EXCEPT !.ended[id] = before],
                 IF before = "raised"
                 THEN AfterException(tr.pos, Len(tr.active)) ELSE tr.pos + 1)
    ELSE IF kind = "hung"
    THEN [tr EXCEPT !.invoked[id] = @ + 1, !.ended[id] = kind, !.kind = "hung"]
    ELSE BatchAt([tr EXCEPT !.invoked[id] = @ + 1, !.ended[id] = kind],
                 IF kind = "raised"
                 THEN AfterException(tr.pos, Len(tr.active)) ELSE tr.pos + 1)

ExecuteStrategyRoutine ==
    /\ trace.kind = "running"
    /\ \E kind \in RoutineKinds :
          trace' = BatchIteration(trace, trace.active[trace.pos],
                                  BeforeRoutine(trace.rows[trace.active[trace.pos]]), kind)
    /\ UNCHANGED <<params, now, snapshots, orders, retry>>

BatchNext == BatchQuery \/ ExecuteStrategyRoutine

BatchSpec == BatchInit /\ [][BatchNext]_vars

GenStates ==
    {[VRInitialState(VRParams) EXCEPT !.v = v, !.pool = pool, !.qty = qty,
                                      !.ct = ct, !.ct_buy_qty = IF ct THEN 1 ELSE 0] :
        v \in {1000000, 2000000}, pool \in {0, 1000000, 5000000, 7500000},
        qty \in {0, 10, 99, 100, 150}, ct \in BOOLEAN}

GenInit ==
    /\ params = VRParams
    /\ now = 0
    /\ snapshots = <<>>
    /\ orders = <<>>
    /\ retry = 0
    /\ \E state \in GenStates, price \in {5000, 40000} :
          trace = [kind |-> "to_generate", state |-> state, price |-> price,
                   result |-> <<>>]

\* VRStrategy._generate_orders
VRGenerate ==
    /\ trace.kind = "to_generate"
    /\ trace' = [trace EXCEPT
                    !.kind = IF VRGenerateOrders(params, trace.state, trace.price).hang
                             THEN "hung" ELSE "generated",
                    !.result = VRGenerateOrders(params, trace.state, trace.price).orders]
    /\ UNCHANGED <<params, now, snapshots, orders, retry>>

GenNext == VRGenerate

GenSpec == GenInit /\ [][GenNext]_vars

\* The orders of one side among those returned.
SideOrders(os, side) == SelectSeq(os, LAMBDA o : o.side = side)

\* floor(sell_limit), sell_limit = sell_limit_rate x current quantity.
SellLimitFloor(p, state) == (p.sell_limit_rate * VRCurrentQty(state)) \div 100

\* C13: the Value-Rebalancing generator terminates for every progress state
\* with qty >= 0, pool >= 0, V > 0 and every price, and returns at most
\* floor(sell_limit) SELL orders, each of one unit.
C13_GeneratorTerminates ==
    trace.kind # "to_generate" =>
        /\ trace.kind = "generated"
        /\ Len(SideOrders(trace.result, "SELL")) <= SellLimitFloor(params, trace.state)
        /\ \A i \in 1..Len(trace.result) :
              trace.result[i].side = "SELL" => trace.result[i].qty = 1


\* The sum over orders of price x qty (cents).
OrdersCost(os) == SumSeq([i \in 1..Len(os) |-> os[i].price * os[i].qty])

\* buy_limit = buy_limit_rate x pool, in hundredths of a cent.
BuyLimit100(p, state) == p.buy_limit_rate * state.pool

\* C14: the cost of the BUY orders of the Value-Rebalancing generator never
\* exceeds buy_limit, for the 1-unit ladder before merging and for the
\* orders returned after merging.
C14_BuyWithinLimit ==
    trace.kind = "generated" =>
        /\ OrdersCost(VRBuyOrders(params, trace.state, trace.price).orders) * 100
              <= BuyLimit100(params, trace.state)
        /\ OrdersCost(SideOrders(trace.result, "BUY")) * 100
              <= BuyLimit100(params, trace.state)


\* The summed quantity of orders.
OrdersQty(os) == SumSeq([i \in 1..Len(os) |-> os[i].qty])

\* A side's 1-unit ladder and the orders returned for that side agree with
\* a merge into max_daily_orders buckets.
MergedToFive(ladder, merged) ==
    Len(ladder) > MaxDailyOrders =>
        Len(merged) = MaxDailyOrders /\ OrdersQty(merged) = Len(ladder)

\* C15: when a side's ladder has more than max_daily_orders = 5 orders, the
\* orders returned for that side are exactly 5 and their summed quantity is
\* the number of orders of the ladder.
C15_MergeToFive ==
    trace.kind = "generated" =>
        /\ MergedToFive(VRBuyOrders(params, trace.state, trace.price).orders,
                        SideOrders(trace.result, "BUY"))
        /\ MergedToFive(VRSellLadder(params, trace.state, VRCurrentQty(trace.state)).orders,
                        SideOrders(trace.result, "SELL"))


(***************************************************************************)
(* Properties of order submission and of failures within a run.            *)
(***************************************************************************)
\* The order rows a step added.
NewOrders == SubSeq(orders', Len(orders) + 1, Len(orders'))

\* C16: in a run that places orders, every submission that reached the
\* broker leaves exactly one Order row of the snapshot, SUBMITTED if the
\* broker accepted it and REJECTED otherwise, and the run's commit succeeds.
C16_EverySubmissionPersisted ==
    [][(trace'.placed_for # 0 /\ trace'.kind \in {"returned", "raised"}) =>
          /\ trace'.kind = "returned"
          /\ Len(orders') = Len(orders) + trace'.sent
          /\ \A k \in 1..Len(NewOrders) :
                /\ NewOrders[k].snapshot_id = trace'.placed_for
                /\ NewOrders[k].order_status \in {"SUBMITTED", "REJECTED"}
          /\ Len(SelectSeq(NewOrders, LAMBDA o : o.order_status = "SUBMITTED"))
                = trace'.accepted]_vars


\* C17: no order of quantity 0 or less is recorded as an Order row, and a
\* run submits no more orders than it generated with a positive quantity.
C17_NoEmptyOrder ==
    /\ \A i \in 1..Len(orders) : orders[i].order_qty > 0
    /\ trace.placed_for # 0 => trace.sent <= trace.sendable

\* A run generated orders of quantity 0 among others, submitted the others
\* and recorded them.
C17_Witness ==
    /\ PlacementEnded
    /\ trace.kind = "returned"
    /\ trace.generated > trace.sendable
    /\ trace.sent = trace.sendable
    /\ trace.sent > 0
    /\ Len(OrdersOf(orders, trace.placed_for)) = trace.sent


(***************************************************************************)
(* The routines on a snapshot whose progress lacks a field the engine      *)
(* needs, as the operator's snapshot endpoints can leave it: an Averaging  *)
(* PENDING snapshot without avg_price, or a Value-Rebalancing snapshot in  *)
(* progress without V, with an order placed for it.                        *)
(***************************************************************************)
FaultSnapshots(p) ==
    IF p.strategy_code = "InfBuy"
    THEN {<<NewSnapshot("PENDING", 1, [st EXCEPT !.avg_price = NoPrice], 0)>> :
             st \in OperatorStates(p)}
    ELSE {<<[NewSnapshot("IN_PROGRESS", 1, [VRInitialState(p) EXCEPT !.v = 0, !.pool = pool], 0)
                EXCEPT !.executed_at = "set"]>> : pool \in {-100, 0, 1000000}}

FaultOrders(p) ==
    IF p.strategy_code = "InfBuy" THEN <<>>
    ELSE <<[order_id |-> 1, snapshot_id |-> 1, order_status |-> "SUBMITTED",
            order_type |-> "BUY", order_qty |-> 2, order_price |-> 5000,
            filled_qty |-> 0, filled_price |-> 0]>>

FaultInit ==
    /\ params \in {InfBuyParams, VRParams}
    /\ now = 0
    /\ snapshots \in FaultSnapshots(params)
    /\ orders = FaultOrders(params)
    /\ trace = NoTrace
    /\ retry = 0

FaultSpec == FaultInit /\ [][Next]_vars

\* C18: a run that gets to use a progress state lacking a required field,
\* avg_price in Averaging order generation or V in the Value-Rebalancing
\* next-state calculation, ends with that snapshot FAILED.
C18_MissingFieldFails ==
    /\ (params.strategy_code = "InfBuy" /\ RunEnded /\ trace.placed_for # 0
            /\ Placed.progress.avg_price = NoPrice)
          => Placed.status = "FAILED"
    /\ (params.strategy_code = "VR" /\ RunEnded /\ trace.closed # 0
            /\ snapshots[trace.closed].progress.v = 0)
          => snapshots[trace.closed].status = "FAILED"


\* C19: a run in which a broker call failed (the price lookup, the history
\* query, or an order submission that raised) aborts, and every snapshot
\* keeps the status it had before the run; none is set to FAILED.
C19_BrokerErrorKeepsStatus ==
    [][trace'.broker_error # "none" =>
          /\ trace'.kind = "raised"
          /\ \A i \in 1..Len(snapshots) : snapshots'[i].status = snapshots[i].status
          /\ \A i \in 1..Len(snapshots') : Len(snapshots) < i
                => snapshots'[i].status # "FAILED"]_vars


(***************************************************************************)
(* Two runs for one Strategy at a time: the scheduler's batch runs in the  *)
(* scheduler's thread and the start endpoint's background task in a        *)
(* worker thread of the web server, each with a session of its own and     *)
(* with no lock between them.  A run takes two steps: up to the decision   *)
(* to place orders, committing what the routine commits on the way, and    *)
(* then order placement with the final commit.  trace holds each run's     *)
(* position and stage and the order batches submitted so far.              *)
(***************************************************************************)
Ticks == {"batch", "manual"}

ConcInit ==
    /\ params \in {InfBuyParams, VRParams}
    /\ now = 0
    /\ snapshots \in InitialSnapshots(params)
    /\ orders = <<>>
    /\ retry = 0
    /\ trace = [kind |-> "concurrent",
                pc |-> [t \in Ticks |-> "idle"],
                stage |-> [t \in Ticks |-> Stage("none", <<>>, <<>>, NoTrace, 0)],
                batches |-> <<>>]

\* The run's position after its first step.
AfterStage(st) == IF st.kind = "place" THEN "placing" ELSE "done"

\* The first step of run t, which got to stage st.
TickStaged(t, st) ==
    /\ snapshots' = st.snapshots
    /\ orders' = st.orders
    /\ trace' = [trace EXCEPT !.pc[t] = AfterStage(st), !.stage[t] = st]
    /\ UNCHANGED <<params, now, retry>>

\* execute_daily_routine up to order placement, started by the batch
\* (scheduler.py line 151) or by run_strategy_task.
TickStart ==
    \E t \in Ticks :
        /\ trace.pc[t] = "idle"
        /\ \E in \in RunInputs :
              TickStaged(t, Routine(params, now, snapshots, orders, in))

\* The second step of run t with result r of placement and commit.
TickPlaced(t, sid, r) ==
    /\ snapshots' = r.snapshots
    /\ orders' = r.orders
    /\ trace' = [trace EXCEPT !.pc[t] = "done",
                              !.batches = Append(@, [tick |-> t, sid |-> sid,
                                                     sent |-> r.trace.sent])]
    /\ UNCHANGED <<params, now, retry>>

\* Run t's placement for the stage st it holds, brought up to the rows now
\* committed (_place_orders begins by refreshing the snapshot), with the
\* generated orders gen.
TickPlaceFor(t, st, gen) ==
    \E outs \in OutSeqs(Sendable(gen.orders)) :
        TickPlaced(t, st.sid,
                   PlaceAndCommit(params, st, gen,
                                  PlaceOrders(gen, outs, st.sid, Len(st.orders))))

\* _place_orders and the final commit of a run that decided to place.
TickPlace ==
    \E t \in Ticks :
        /\ trace.pc[t] = "placing"
        /\ \E price \in Prices(params) :
              TickPlaceFor(t, [trace.stage[t] EXCEPT !.snapshots = snapshots,
                                                     !.orders = orders],
                           GenerateOrders(params,
                               snapshots[trace.stage[t].sid].progress, price))

ConcNext == TickStart \/ TickPlace

ConcSpec == ConcInit /\ [][ConcNext]_vars

\* The status of the snapshot of the i-th batch when its run decided to
\* place orders for it.
DecidedOn(i) ==
    trace.stage[trace.batches[i].tick].snapshots[trace.batches[i].sid].status

\* C20: the batch's run and the start endpoint's run for one Strategy are
\* never both under way, and never both submit the order batch of a
\* snapshot they both found PENDING.
C20_NoOverlap ==
    /\ ~(\A t \in Ticks : trace.pc[t] = "placing")
    /\ \A i, j \in 1..Len(trace.batches) :
          (i < j /\ trace.batches[i].sid = trace.batches[j].sid)
              => ~(/\ trace.batches[i].sent > 0 /\ trace.batches[j].sent > 0
                   /\ DecidedOn(i) = "PENDING" /\ DecidedOn(j) = "PENDING")


(***************************************************************************)
(* A Strategy from its creation on, under repeated runs.  create_strategy  *)
(* stores the Strategy ACTIVE together with a snapshot in status INIT.     *)
(* The scheduler starts a run of every ACTIVE Strategy each day, so a run  *)
(* is taken again and again for as long as it can change anything, and the *)
(* clock moves on for as long as the model follows it.                     *)
(***************************************************************************)
\* base_params a Strategy is created with.
CreatedParams ==
    {[InfBuyParams EXCEPT !.division = d, !.sell_gain = g, !.reinvestment_rate = r] :
        d \in {10, 20, 40}, g \in {10, 20}, r \in {0, 50}}
    \cup {[VRParams EXCEPT !.g_factor = g, !.periodic_investment = pi, !.is_advanced = a] :
             g \in {10, 13}, pi \in {0, 40000}, a \in BOOLEAN}

\* The database after create_strategy (strategies.py lines 74-120).
CreatedInit ==
    /\ params \in CreatedParams
    /\ now = 0
    /\ snapshots = <<NewSnapshot("INIT", 0, EndpointInitState(params), 0)>>
    /\ orders = <<>>
    /\ trace = NoTrace
    /\ retry = 0

CreatedSpec ==
    CreatedInit /\ [][Next]_vars /\ WF_vars(ExecuteDailyRoutine) /\ WF_vars(AdvanceClock)

LatestIs(statuses) == snapshots # <<>> /\ Latest.status \in statuses

\* C21: when the latest snapshot is INIT, repeated runs lead to a state in
\* which the latest snapshot is PENDING or IN_PROGRESS.
C21_InitTransient == LatestIs({"INIT"}) ~> LatestIs({"PENDING", "IN_PROGRESS"})



(***************************************************************************)
(* The Averaging order generator on its own: _generate_orders applied to a *)
(* progress state and a price.  trace holds the state, the price and what  *)
(* the call yields.                                                        *)
(***************************************************************************)
\* Strategies of 20 divisions and of a single one.
InfBuyGenParams == {InfBuyParams, [InfBuyParams EXCEPT !.division = 1]}

\* Progress states: T at 0 and on both sides of division/2 and division - 1
\* for either division, a holding of none to six shares, an investment of
\* 10,000.00 or 100.00.
InfBuyGenStates(p) ==
    {[InfBuyInitialState(p) EXCEPT !.current_t = t, !.quantity = q,
                                   !.avg_price = IF q = 0 THEN 0 ELSE 40000,
                                   !.investment = inv] :
        t \in {0, 30, 80, 1000, 1001, 1900, 1901},
        q \in {0, 1, 2, 3, 6},
        inv \in {1000000, 10000}}

\* Prices quoted: 100.00, 125.00, 400.00, 600.00, and 0.20 for a unit
\* investment of 5.00 (for a larger one the ladder at that price has hundreds
\* of orders).
InfBuyGenPrices(p, state) ==
    {10000, 12500, 40000, 60000}
        \cup (IF UnitNum(p, state) = 500 * p.division THEN {20} ELSE {})

InfBuyGenInit ==
    /\ params \in InfBuyGenParams
    /\ now = 0
    /\ snapshots = <<>>
    /\ orders = <<>>
    /\ retry = 0
    /\ \E state \in InfBuyGenStates(params) :
          \E price \in InfBuyGenPrices(params, state) :
              trace = [kind |-> "to_generate", state |-> state, price |-> price,
                       result |-> <<>>]

\* InfBuyStrategy._generate_orders
InfBuyGenerate ==
    /\ trace.kind = "to_generate"
    /\ trace' = [trace EXCEPT
                    !.kind = IF InfBuyGenerateOrders(params, trace.state, trace.price).raised
                             THEN "raised" ELSE "generated",
                    !.result = InfBuyGenerateOrders(params, trace.state, trace.price).orders]
    /\ UNCHANGED <<params, now, snapshots, orders, retry>>

InfBuyGenNext == InfBuyGenerate

InfBuyGenSpec == InfBuyGenInit /\ [][InfBuyGenNext]_vars

\* The generator ran on a state with T = 0.
ColdStartGenerated == trace.kind = "generated" /\ trace.state.current_t = 0

\* round(current_price x 1.20, 2)
ColdStartPrice == RoundDiv(trace.price * 120, 100)

\* floor(unit_investment / price) for the price of the first order.
ColdStartQty == UnitNum(params, trace.state) \div (params.division * ColdStartPrice)

\* The orders from the k-th on are 1-unit BUY orders, all but the last above
\* 80% of the current price and the last the first one at or below it.
DropOrdersFrom(os, k) ==
    /\ Len(os) >= k
    /\ \A i \in k..Len(os) : os[i].side = "BUY" /\ os[i].qty = 1
    /\ \A i \in k..(Len(os) - 1) : os[i].price * 10 > trace.price * 8
    /\ os[Len(os)].price * 10 <= trace.price * 8

\* C22: with T = 0 the generator emits first one BUY at
\* round(current_price x 1.20, 2) for floor(unit_investment / price) units,
\* then 1-unit drop BUY orders whose prices strictly decrease and whose last
\* price is the first one <= current_price x 0.80.
C22_ColdStartLadder ==
    ColdStartGenerated =>
        /\ trace.result # <<>>
        /\ trace.result[1].side = "BUY"
        /\ trace.result[1].price = ColdStartPrice
        /\ trace.result[1].qty = ColdStartQty
        /\ DropOrdersFrom(trace.result, 2)
        /\ \A i \in 2..Len(trace.result) :
              trace.result[i].price < trace.result[i - 1].price

\* The position of the first drop order: after the first order when there
\* is one.
FirstDrop == IF ColdStartQty >= 1 THEN 2 ELSE 1

\* C22 as the code has it: the first BUY at round(current_price x 1.20, 2)
\* for floor(unit_investment / price) units is emitted only when that
\* quantity is at least 1; then come the 1-unit drop BUY orders, priced
\* round(unit_investment / q, 2) for q counting up from that quantity plus
\* one, whose prices never increase and whose last price is the first one
\* <= current_price x 0.80 (all orders are below the first order's price).
C22_ColdStartLadderFromQty ==
    ColdStartGenerated =>
        /\ ColdStartQty >= 1 =>
              /\ trace.result[1].side = "BUY"
              /\ trace.result[1].price = ColdStartPrice
              /\ trace.result[1].qty = ColdStartQty
        /\ DropOrdersFrom(trace.result, FirstDrop)
        /\ \A i \in FirstDrop..Len(trace.result) :
              /\ trace.result[i].price
                    = RoundDiv(UnitNum(params, trace.state),
                               params.division * (ColdStartQty + i - FirstDrop + 1))
              /\ trace.result[i].price <= ColdStartPrice
              /\ i > FirstDrop => trace.result[i].price <= trace.result[i - 1].price

\* The example: division 20, price 100.00, unit investment 500.00 give 4
\* units at 120.00 and drop orders at 100.00, 83.33 and 71.43.
C22_Witness ==
    /\ ColdStartGenerated
    /\ params.division = 20
    /\ trace.price = 10000
    /\ UnitNum(params, trace.state) = 50000 * 20
    /\ Len(trace.result) = 4
    /\ trace.result[1].price = 12000 /\ trace.result[1].qty = 4
    /\ trace.result[2].price = 10000
    /\ trace.result[3].price = 8333
    /\ trace.result[4].price = 7143



(***************************************************************************)
(* Properties of the Averaging next-state computation (checked where the   *)
(* calculators run on their own).                                          *)
(***************************************************************************)
\* The quantity recomputed from the snapshot's orders: the state's quantity
\* plus the filled BUY quantities minus the filled SELL quantities.
NetFilledQty(progress, ords) ==
    progress.quantity + SignedFills(SelectSeq(ords, IsFilled))

\* C23: the Averaging next state computed from a snapshot has T = 0,
\* star = sell_gain, quantity = 0, avg_price = 0 and the snapshot's cycle
\* plus one if the recomputed quantity is 0 or less, and the snapshot's
\* cycle otherwise.
C23_CycleReset ==
    (params.strategy_code = "InfBuy" /\ trace.results # <<>>) =>
        IF NetFilledQty(snapshots[1].progress, orders) <= 0
        THEN /\ trace.results[1].state.current_t = 0
             /\ trace.results[1].state.star = params.sell_gain
             /\ trace.results[1].state.quantity = 0
             /\ trace.results[1].state.avg_price = 0
             /\ trace.results[1].state.cycle = snapshots[1].cycle + 1
        ELSE /\ trace.results[1].state.cycle = snapshots[1].cycle
             /\ trace.results[1].state.quantity
                   = NetFilledQty(snapshots[1].progress, orders)

\* The state was computed from a snapshot holding a share whose orders sold
\* it: the cycle was reset from a state with T > 0.
C23_Witness ==
    /\ params.strategy_code = "InfBuy"
    /\ trace.results # <<>>
    /\ snapshots[1].progress.quantity >= 1
    /\ snapshots[1].progress.current_t > 0
    /\ \E i \in 1..Len(orders) : orders[i].order_type = "SELL" /\ IsFilled(orders[i])
    /\ trace.results[1].state.quantity = 0
    /\ trace.results[1].state.current_t = 0
    /\ trace.results[1].state.cycle = snapshots[1].cycle + 1



\* The sub-types of the generated orders, in order.
OrderTypes(os) == [i \in 1..Len(os) |-> os[i].type]

\* The phase whose orders the generator returned.
AppliedPhase(os) ==
    IF OrderTypes(os) = <<"AvgBuy", "StarBuy", "StarSell", "AllSell">> THEN "first"
    ELSE IF OrderTypes(os) = <<"StarBuy", "StarSell", "AllSell">> THEN "second"
    ELSE IF OrderTypes(os) = <<"QtrSell">> THEN "losscut"
    ELSE IF os # <<>> /\ \A i \in 1..Len(os) : os[i].type \in {"Init", "InitDrop"}
    THEN "cold"
    ELSE "none"

\* The loss-cut order: a market-on-close SELL of round(quantity / 4) units
\* at price 0.
LossCutOrder(state) ==
    GenOrder("SELL", "QtrSell", 0, RoundDiv(state.quantity, 4), "MOC")

\* C24: the generator applies the cold start iff T = 0, the first half iff
\* 0 < T <= division/2, the second half iff division/2 < T <= division-1,
\* and the loss-cut, a single market-on-close SELL of round(quantity/4)
\* units at price 0, iff T > division-1.
C24_OnePhase ==
    trace.kind = "generated" =>
        /\ AppliedPhase(trace.result) = "cold" <=> trace.state.current_t = 0
        /\ AppliedPhase(trace.result) = "first"
              <=> /\ 0 < trace.state.current_t
                  /\ 2 * trace.state.current_t <= 100 * params.division
        /\ AppliedPhase(trace.result) = "second"
              <=> /\ 100 * params.division < 2 * trace.state.current_t
                  /\ trace.state.current_t <= 100 * (params.division - 1)
        /\ AppliedPhase(trace.result) = "losscut"
              <=> trace.state.current_t > 100 * (params.division - 1)
        /\ AppliedPhase(trace.result) = "losscut"
              => trace.result = <<LossCutOrder(trace.state)>>

\* C24 as the code has it: the phases are tried in the order cold start,
\* first half, second half, loss-cut, so the loss-cut is applied iff
\* T > division-1 and T > division/2 (the two differ for division = 1, where
\* 0 < T <= 1/2 is first half).
C24_OnePhaseInOrder ==
    trace.kind = "generated" =>
        /\ AppliedPhase(trace.result) = "cold" <=> trace.state.current_t = 0
        /\ AppliedPhase(trace.result) = "first"
              <=> /\ 0 < trace.state.current_t
                  /\ 2 * trace.state.current_t <= 100 * params.division
        /\ AppliedPhase(trace.result) = "second"
              <=> /\ 100 * params.division < 2 * trace.state.current_t
                  /\ trace.state.current_t <= 100 * (params.division - 1)
        /\ AppliedPhase(trace.result) = "losscut"
              <=> /\ trace.state.current_t > 100 * (params.division - 1)
                  /\ 2 * trace.state.current_t > 100 * params.division
        /\ AppliedPhase(trace.result) = "losscut"
              => trace.result = <<LossCutOrder(trace.state)>>

\* The generator ran in loss-cut mode on a holding of six shares and
\* returned the single market-on-close SELL of two.
C24_Witness ==
    /\ trace.kind = "generated"
    /\ params.division = 20
    /\ trace.state.current_t = 1901
    /\ trace.state.quantity = 6
    /\ Len(trace.result) = 1
    /\ trace.result[1].side = "SELL"
    /\ trace.result[1].qty = 2
    /\ trace.result[1].price = 0
    /\ trace.result[1].order_type = "MOC"



(***************************************************************************)
(* Properties of the snapshot table over sequences of runs.                *)
(***************************************************************************)
\* The status changes the lifecycle allows.
StatusEdges ==
    {<<"INIT", "COMPLETED">>, <<"PENDING", "IN_PROGRESS">>, <<"PENDING", "FAILED">>,
     <<"IN_PROGRESS", "COMPLETED">>, <<"IN_PROGRESS", "FAILED">>}

\* Snapshot i is closed for good: FAILED, or COMPLETED with a successor.
Terminal(i) ==
    \/ snapshots[i].status = "FAILED"
    \/ snapshots[i].status = "COMPLETED" /\ i < Len(snapshots)

\* Snapshot i, which the step created, is the synthetic initial snapshot of
\* a Strategy that had none, or the successor of a COMPLETED snapshot
\* created PENDING (and possibly taken further by the same run's order
\* placement).
CreatedInOrder(i) ==
    \/ i = 1 /\ snapshots = <<>>
    \/ /\ i > 1
       /\ snapshots'[i - 1].status = "COMPLETED"
       /\ snapshots'[i].status \in {"PENDING", "IN_PROGRESS", "FAILED"}

\* C25: over any sequence of runs, a snapshot's status changes only along
\* INIT->COMPLETED, PENDING->IN_PROGRESS, PENDING->FAILED,
\* IN_PROGRESS->COMPLETED and IN_PROGRESS->FAILED; a FAILED snapshot and a
\* COMPLETED snapshot with a successor never change status; and snapshots
\* are created only as the synthetic initial one or as the PENDING successor
\* of a COMPLETED one.
C25_StatusEdges ==
    [][/\ Len(snapshots') >= Len(snapshots)
       /\ \A i \in 1..Len(snapshots) :
             /\ snapshots'[i].status # snapshots[i].status
                   => <<snapshots[i].status, snapshots'[i].status>> \in StatusEdges
             /\ Terminal(i) => snapshots'[i].status = snapshots[i].status
       /\ \A i \in (Len(snapshots) + 1)..Len(snapshots') : CreatedInOrder(i)]_vars



(***************************************************************************)
(* Properties of the held quantity.                                        *)
(***************************************************************************)
\* The Value-Rebalancing holding for a snapshot with progress state progress
\* and orders ords: the state's qty plus the filled BUY quantities minus the
\* filled SELL quantities.
VRHeld(progress, ords) == progress.qty + SignedFills(SelectSeq(ords, IsFilled))

\* C26: when a Value-Rebalancing run generates orders for a snapshot some of
\* whose orders were reconciled as filled by earlier runs, the quantity the
\* generation takes as held (its current_qty) is the state's qty plus the
\* filled BUY minus the filled SELL quantities of the snapshot's orders.
C26_GenerationCountsFills ==
    [][(/\ params.strategy_code = "VR"
        /\ trace'.placed_for # 0
        /\ trace'.placed_for <= Len(snapshots)
        /\ \E k \in 1..Len(orders) :
              orders[k].snapshot_id = trace'.placed_for /\ IsFilled(orders[k]))
          => VRCurrentQty(snapshots'[trace'.placed_for].progress)
                = VRHeld(snapshots[trace'.placed_for].progress,
                         OrdersOf(orders', trace'.placed_for))]_vars



\* The held quantity of a progress state (Averaging quantity,
\* Value-Rebalancing qty).
HeldOf(progress) ==
    IF params.strategy_code = "InfBuy" THEN progress.quantity ELSE progress.qty

\* The filled BUY minus the filled SELL quantities of the orders of the
\* snapshots up to the n-th that are COMPLETED with a successor.
RECURSIVE ClosedFills(_)
ClosedFills(n) ==
    IF n = 0 THEN 0
    ELSE ClosedFills(n - 1)
         + (IF snapshots[n].status = "COMPLETED" /\ n < Len(snapshots)
            THEN SignedFills(SelectSeq(OrdersOf(orders, n),
                     LAMBDA o : o.order_status \in {"FILLED", "PARTIALLY_FILLED"}))
            ELSE 0)

C28_SellsWithinHolding ==
    [][/\ \A i \in 1..Len(snapshots') : HeldOf(snapshots'[i].progress) >= 0
       /\ trace'.placed_for # 0 =>
             trace'.sold
                 + (IF trace.placed_for = trace'.placed_for THEN trace.sold ELSE 0)
                 <= HeldOf(snapshots'[trace'.placed_for].progress)]_vars



\* C29: for the Averaging variant a run submits orders only for a snapshot
\* that was PENDING when the run began, and of two successive runs that
\* placed orders for the same snapshot at most one had orders accepted.
C29_PlacedWhilePendingOnce ==
    [][(params.strategy_code = "InfBuy" /\ trace'.placed_for # 0) =>
          /\ trace'.sent > 0 =>
                /\ trace'.placed_for <= Len(snapshots)
                /\ snapshots[trace'.placed_for].status = "PENDING"
          /\ trace.placed_for = trace'.placed_for =>
                ~(trace.accepted > 0 /\ trace'.accepted > 0)]_vars



\* C30: when a run of the Averaging routine has generated the orders of a
\* snapshot that holds one share or more, at least one of them has a
\* quantity of 1 or more, so that not all of them are dropped before
\* submission.
C30_HoldingHasSendableOrder ==
    (/\ params.strategy_code = "InfBuy"
     /\ trace.kind = "returned"
     /\ trace.placed_for # 0
     /\ snapshots[trace.placed_for].progress.quantity >= 1)
        => trace.sendable >= 1


=============================================================================
